---- MODULE Spec2Model ----
(***************************************************************************)
(* SerialCommunication (src/serialcommunication.cpp): the host side of the *)
(* serial protocol that streams a Sequence of points to the board.         *)
(*                                                                         *)
(* The object's fields, the Sequence it borrows, the transport and the     *)
(* signals it emits are the state.  Every member function is an operator   *)
(* from an engine record to an engine record, written statement by         *)
(* statement from the source; every public operation, slot and timer       *)
(* expiry is one action that applies the operator to the current state.    *)
(***************************************************************************)
EXTENDS Integers, Sequences, FiniteSets, TLC

VARIABLES
    m_serialPort,         \* m_serialPort.isOpen()
    m_arduinoBoot,        \* m_arduinoBoot.isActive(): the boot timer is pending
    m_sequence,           \* "nullptr" or "sequence" (the one Sequence object)
    m_isStreamMode,
    m_isImmediateMode,
    m_paused,
    m_hardwareQueueFull,
    m_incomingData,       \* QByteArray: sequence of bytes 0..255
    connected,            \* Sequence::curPointChanged is connected to our slot
    seqPoints,            \* the Sequence: its points ...
    curPoint,             \* ... and its cursor (0-based)
    written,              \* packets the last call handed to m_serialPort.write
    events,               \* signals the last call emitted, in order
    stalled,              \* control is inside handleReadyRead's loop for ever
    result,               \* how the last call ended: "ok", "false", "exception"
    lastCall,             \* the member function the last step ran
    window,               \* the bytes of the last readyRead calls, see Feed
    step,                 \* position in the start/boot/N scenario
    codecIn,              \* input of the packet builders checked on their own
    codecOut,             \* the packet built from codecIn
    writeReturns,         \* what m_serialPort.write returns: see write
    flow                  \* the points of the running stream, see Flow

engineVars == <<m_serialPort, m_arduinoBoot, m_sequence, m_isStreamMode,
                m_isImmediateMode, m_paused, m_hardwareQueueFull,
                m_incomingData, connected, seqPoints, curPoint, written,
                events, stalled>>
auxVars == <<window, step, codecIn, codecOut, writeReturns, flow>>
vars == <<engineVars, result, lastCall, auxVars>>

---------------------------------------------------------------------------
(* Bounds of the model *)
MaxPoints == 3      \* longest Sequence
MaxBuf == 3         \* bytes left in m_incomingData between two calls
MaxChunk == 2       \* bytes delivered by one readAll()
MaxFed == 2         \* bytes in one chunk-independence window

(* Packet tags, as the character codes the source writes *)
ChD == 68
ChF == 70
ChH == 72
ChI == 73
ChN == 78
ChP == 80
ChS == 83

\* Bytes the device side is let to send: the three tags and one more byte,
\* which is an unknown tag at the head of the buffer and else the length or
\* the payload of a debug frame.
Bytes == {ChD, ChF, ChN, 1}

RECURSIVE SeqsUpTo(_, _)
SeqsUpTo(S, n) ==
    IF n = 0 THEN {<< >>}
    ELSE LET shorter == SeqsUpTo(S, n - 1)
         IN  shorter \cup {Append(s, x) : s \in shorter, x \in S}

Chunks == SeqsUpTo(Bytes, MaxChunk) \ {<< >>}

---------------------------------------------------------------------------
(* The Sequence collaborator and the values it holds *)

SequencePoint(d, t, v) == [duration |-> d, timeToTarget |-> t, point |-> v]

\* The i-th (0-based) point of the Sequences the engine is run on.
TestPoint(i) == SequencePoint(300 * (i + 1), i, <<i, 255 - i>>)

TestSequence(n) == [i \in 1..n |-> TestPoint(i - 1)]

\* What reading a point outside the Sequence yields: not a point of it.
OutOfRangePoint == SequencePoint(0, 0, << >>)

numPoints(e) == Len(e.seqPoints)

pointDim(e) == IF e.seqPoints = << >> THEN 0 ELSE Len(e.seqPoints[1].point)

point(e) ==
    IF e.curPoint \in 0..(numPoints(e) - 1)
    THEN e.seqPoints[e.curPoint + 1]
    ELSE OutOfRangePoint

---------------------------------------------------------------------------
(* The engine as a record, and the state as that record.  Eng is the engine *)
(* as a call finds it: nothing written or emitted yet by this call.         *)

Eng ==
    [m_serialPort |-> m_serialPort, m_arduinoBoot |-> m_arduinoBoot,
     m_sequence |-> m_sequence, m_isStreamMode |-> m_isStreamMode,
     m_isImmediateMode |-> m_isImmediateMode, m_paused |-> m_paused,
     m_hardwareQueueFull |-> m_hardwareQueueFull,
     m_incomingData |-> m_incomingData, connected |-> connected,
     seqPoints |-> seqPoints, curPoint |-> curPoint, written |-> << >>,
     events |-> << >>, stalled |-> stalled, result |-> "ok",
     writeReturns |-> writeReturns]

Apply(e) ==
    /\ m_serialPort' = e.m_serialPort
    /\ m_arduinoBoot' = e.m_arduinoBoot
    /\ m_sequence' = e.m_sequence
    /\ m_isStreamMode' = e.m_isStreamMode
    /\ m_isImmediateMode' = e.m_isImmediateMode
    /\ m_paused' = e.m_paused
    /\ m_hardwareQueueFull' = e.m_hardwareQueueFull
    /\ m_incomingData' = e.m_incomingData
    /\ connected' = e.connected
    /\ seqPoints' = e.seqPoints
    /\ curPoint' = e.curPoint
    /\ written' = e.written
    /\ events' = e.events
    /\ stalled' = e.stalled
    /\ result' = e.result

Throw(e) == [e EXCEPT !.result = "exception"]

Signal(name, arg) == [sig |-> name, arg |-> arg]

emit(e, s) == [e EXCEPT !.events = Append(@, s)]

isStreamMode(e) == e.m_isStreamMode

isImmediateMode(e) == e.m_isImmediateMode

isStreaming(e) == e.m_isStreamMode \/ e.m_isImmediateMode

---------------------------------------------------------------------------
(* Packet builders *)

\* C++ a && b on integers: 1 when both are non-zero, else 0.
LogicalAnd(a, b) == IF a # 0 /\ b # 0 THEN 1 ELSE 0

ShiftRight8(x) == x \div 256

Low8(x) == x % 256

createSequencePacketForPoint(p) ==
    <<ChP,
      LogicalAnd(ShiftRight8(p.duration), 255),
      Low8(p.duration),
      LogicalAnd(ShiftRight8(p.timeToTarget), 255),
      Low8(p.timeToTarget)>>
    \o [c \in 1..Len(p.point) |-> Low8(p.point[c])]

\* The start packet arduinoBootFinished builds (stream: isStreamMode()).
startPacket(stream, dim) ==
    <<IF stream THEN ChS ELSE ChI, LogicalAnd(dim, 255)>>

\* m_serialPort.write(data): the number of bytes the port took, or -1.
write(e, data) ==
    CASE e.writeReturns = "all" -> Len(data)
      [] e.writeReturns = "short" -> Len(data) - 1
      [] e.writeReturns = "-1" -> -1

\* The packet is handed to the port; a return value that is -1 or short of
\* the packet is only printed by qDebug, which is no part of the state.
sendData(e, dataToSend) ==
    LET bytesWritten == write(e, dataToSend)
        handed == [e EXCEPT !.written = Append(@, dataToSend)]
    IN  IF bytesWritten = -1
        THEN handed
        ELSE IF bytesWritten # Len(dataToSend)
        THEN handed
        ELSE handed

---------------------------------------------------------------------------
(* Member functions, each from the engine before the call to the engine    *)
(* after it.  A call that throws leaves result = "exception".              *)

curPointChanged(e) ==
    IF ~isImmediateMode(e)
    THEN e
    ELSE sendData(e, createSequencePacketForPoint(point(e)))

\* Sequence::setCurPoint: moves the cursor and, when it changed, notifies the
\* connected slot.
setCurPoint(e, i) ==
    LET moved == [e EXCEPT !.curPoint = i]
    IN  IF e.connected /\ i # e.curPoint THEN curPointChanged(moved) ELSE moved

\* stop leaving m_sequence as it is.
stop_keepsSequence(e) ==
    IF ~isStreaming(e)
    THEN Throw(e)
    ELSE LET sent == sendData(e, <<ChH>>)
             unbound == [sent EXCEPT !.connected = FALSE]
             told == IF isStreamMode(unbound)
                     THEN emit(unbound, Signal("streamStopped", << >>))
                     ELSE unbound
         IN  [told EXCEPT !.m_paused = FALSE,
                          !.m_isStreamMode = FALSE,
                          !.m_isImmediateMode = FALSE,
                          !.m_hardwareQueueFull = FALSE,
                          !.m_incomingData = << >>]

\* stop without the reset of m_paused.
stop_keepsPaused(e) ==
    IF ~isStreaming(e)
    THEN Throw(e)
    ELSE LET sent == sendData(e, <<ChH>>)
             unbound == [sent EXCEPT !.connected = FALSE,
                                     !.m_sequence = "nullptr"]
             told == IF isStreamMode(unbound)
                     THEN emit(unbound, Signal("streamStopped", << >>))
                     ELSE unbound
         IN  [told EXCEPT !.m_isStreamMode = FALSE,
                          !.m_isImmediateMode = FALSE,
                          !.m_hardwareQueueFull = FALSE,
                          !.m_incomingData = << >>]

\* stop emitting streamStopped whatever the mode was.
stop_alwaysTells(e) ==
    IF ~isStreaming(e)
    THEN Throw(e)
    ELSE LET sent == sendData(e, <<ChH>>)
             unbound == [sent EXCEPT !.connected = FALSE,
                                     !.m_sequence = "nullptr"]
             told == emit(unbound, Signal("streamStopped", << >>))
         IN  [told EXCEPT !.m_paused = FALSE,
                          !.m_isStreamMode = FALSE,
                          !.m_isImmediateMode = FALSE,
                          !.m_hardwareQueueFull = FALSE,
                          !.m_incomingData = << >>]

stop(e) ==
    IF ~isStreaming(e)
    THEN Throw(e)
    ELSE LET sent == sendData(e, <<ChH>>)
             unbound == [sent EXCEPT !.connected = FALSE,
                                     !.m_sequence = "nullptr"]
             told == IF isStreamMode(unbound)
                     THEN emit(unbound, Signal("streamStopped", << >>))
                     ELSE unbound
         IN  [told EXCEPT !.m_paused = FALSE,
                          !.m_isStreamMode = FALSE,
                          !.m_isImmediateMode = FALSE,
                          !.m_hardwareQueueFull = FALSE,
                          !.m_incomingData = << >>]

\* incrementCurPoint comparing the cursor with numPoints, not numPoints - 1.
incrementCurPoint_offByOne(e) ==
    IF e.curPoint = numPoints(e)
    THEN stop(e)
    ELSE setCurPoint(e, e.curPoint + 1)

incrementCurPoint(e) ==
    IF e.curPoint = numPoints(e) - 1
    THEN stop(e)
    ELSE setCurPoint(e, e.curPoint + 1)

\* arduinoBootFinished leaving the cursor on the point it has just sent.
arduinoBootFinished_noAdvance(e) ==
    IF ~isStreaming(e)
    THEN e
    ELSE LET started == sendData(e, startPacket(isStreamMode(e), pointDim(e)))
             first == sendData(started, createSequencePacketForPoint(point(started)))
         IN  IF isStreamMode(first)
             THEN emit(first, Signal("streamStarted", << >>))
             ELSE first

arduinoBootFinished(e) ==
    IF ~isStreaming(e)
    THEN e
    ELSE LET started == sendData(e, startPacket(isStreamMode(e), pointDim(e)))
             first == sendData(started, createSequencePacketForPoint(point(started)))
         IN  IF isStreamMode(first)
             THEN incrementCurPoint(emit(first, Signal("streamStarted", << >>)))
             ELSE first

\* opened: whether m_serialPort.open() succeeds this time.
openSerial(e, opened) ==
    IF isStreaming(e)
    THEN Throw(e)
    ELSE LET closed == [e EXCEPT !.m_serialPort = FALSE]
         IN  IF ~opened
             THEN [closed EXCEPT !.result = "false"]
             ELSE [closed EXCEPT !.m_serialPort = TRUE, !.m_arduinoBoot = TRUE]

\* closeSerial without the test of isStreaming().
closeSerial_noTest(e) == [e EXCEPT !.m_serialPort = FALSE]

closeSerial(e) ==
    IF isStreaming(e)
    THEN Throw(e)
    ELSE [e EXCEPT !.m_serialPort = FALSE]

\* ~SerialCommunication: stop() and closeSerial(), what either throws caught.
Caught(before, after) == IF after.result = "exception" THEN before ELSE after

destructor(e) ==
    LET stopped == Caught(e, stop(e))
    IN  Caught(stopped, closeSerial(stopped))

\* error: the QSerialPort::SerialPortError the port signals.
handleError(e, error) ==
    IF error # "NoError"
    THEN emit(e, Signal("streamError", <<"Error streaming", error>>))
    ELSE e

startStream(e, startFromCurrent) ==
    IF ~e.m_serialPort
    THEN Throw(e)
    ELSE IF isStreaming(e)
    THEN Throw(e)
    ELSE LET set == [e EXCEPT !.m_incomingData = << >>,
                              !.m_paused = FALSE,
                              !.m_isStreamMode = TRUE,
                              !.m_isImmediateMode = FALSE,
                              !.m_hardwareQueueFull = FALSE,
                              !.m_sequence = "sequence"]
             reset == IF ~startFromCurrent THEN setCurPoint(set, 0) ELSE set
         IN  IF ~reset.m_arduinoBoot THEN arduinoBootFinished(reset) ELSE reset

pauseStream(e) ==
    IF ~isStreamMode(e)
    THEN Throw(e)
    ELSE [e EXCEPT !.m_paused = TRUE]

\* resumeStream without the early return when the stream is not paused.
resumeStream_noPausedTest(e) ==
    IF ~isStreamMode(e)
    THEN Throw(e)
    ELSE LET resumed == [e EXCEPT !.m_paused = FALSE]
         IN  IF ~resumed.m_hardwareQueueFull
             THEN incrementCurPoint(
                      sendData(resumed, createSequencePacketForPoint(point(resumed))))
             ELSE resumed

\* resumeStream without the test of m_hardwareQueueFull.
resumeStream_ignoresQueueFull(e) ==
    IF ~isStreamMode(e)
    THEN Throw(e)
    ELSE IF ~e.m_paused
    THEN e
    ELSE LET resumed == [e EXCEPT !.m_paused = FALSE]
         IN  incrementCurPoint(
                 sendData(resumed, createSequencePacketForPoint(point(resumed))))

resumeStream(e) ==
    IF ~isStreamMode(e)
    THEN Throw(e)
    ELSE IF ~e.m_paused
    THEN e
    ELSE LET resumed == [e EXCEPT !.m_paused = FALSE]
         IN  IF ~resumed.m_hardwareQueueFull
             THEN incrementCurPoint(
                      sendData(resumed, createSequencePacketForPoint(point(resumed))))
             ELSE resumed

\* startImmediate clearing the incoming buffer before it tests its
\* preconditions.
startImmediate_clearsFirst(e) ==
    LET cleared == [e EXCEPT !.m_incomingData = << >>]
    IN  IF ~cleared.m_serialPort
        THEN Throw(cleared)
        ELSE IF isStreaming(cleared)
        THEN Throw(cleared)
        ELSE LET set == [cleared EXCEPT !.m_isStreamMode = FALSE,
                                        !.m_isImmediateMode = TRUE,
                                        !.m_sequence = "sequence",
                                        !.connected = TRUE]
             IN  IF ~set.m_arduinoBoot THEN arduinoBootFinished(set) ELSE set

startImmediate(e) ==
    IF ~e.m_serialPort
    THEN Throw(e)
    ELSE IF isStreaming(e)
    THEN Throw(e)
    ELSE LET set == [e EXCEPT !.m_incomingData = << >>,
                              !.m_isStreamMode = FALSE,
                              !.m_isImmediateMode = TRUE,
                              !.m_sequence = "sequence",
                              !.connected = TRUE]
         IN  IF ~set.m_arduinoBoot THEN arduinoBootFinished(set) ELSE set

---------------------------------------------------------------------------
(* handleReadyRead *)

\* QByteArray::remove(0, 1): nothing is removed from an empty array.
RemoveFirst(bytes) == IF bytes = << >> THEN << >> ELSE Tail(bytes)

\* The body of the loop taking 'N' and 'F' in every mode.
DecodeBody_noModeTest(e) ==
    LET head == e.m_incomingData[1]
    IN  IF head = ChN
        THEN LET ready == [e EXCEPT !.m_hardwareQueueFull = FALSE]
                 sent == sendData(ready, createSequencePacketForPoint(point(ready)))
                 moved == incrementCurPoint(sent)
             IN  [e |-> [moved EXCEPT !.m_incomingData = RemoveFirst(@)],
                  partialPacket |-> FALSE]
        ELSE IF head = ChF
        THEN [e |-> [e EXCEPT !.m_hardwareQueueFull = TRUE,
                              !.m_incomingData = RemoveFirst(@)],
              partialPacket |-> FALSE]
        ELSE IF head = ChD
        THEN IF Len(e.m_incomingData) < 2
             THEN [e |-> e, partialPacket |-> TRUE]
             ELSE LET msgLength == e.m_incomingData[2]
                  IN  IF Len(e.m_incomingData) < 2 + msgLength
                      THEN [e |-> e, partialPacket |-> TRUE]
                      ELSE [e |-> emit(e, Signal("debugMessage",
                                       SubSeq(e.m_incomingData, 3, 2 + msgLength))),
                            partialPacket |-> FALSE]
        ELSE [e |-> [emit(e, Signal("streamError", <<head>>))
                        EXCEPT !.m_incomingData = RemoveFirst(@)],
              partialPacket |-> FALSE]

\* The body of the loop waiting for one byte more than the debug frame has.
DecodeBody_offByOne(e) ==
    LET head == e.m_incomingData[1]
    IN  IF isStreamMode(e) /\ head = ChN
        THEN LET ready == [e EXCEPT !.m_hardwareQueueFull = FALSE]
                 sent == sendData(ready, createSequencePacketForPoint(point(ready)))
                 moved == incrementCurPoint(sent)
             IN  [e |-> [moved EXCEPT !.m_incomingData = RemoveFirst(@)],
                  partialPacket |-> FALSE]
        ELSE IF isStreamMode(e) /\ head = ChF
        THEN [e |-> [e EXCEPT !.m_hardwareQueueFull = TRUE,
                              !.m_incomingData = RemoveFirst(@)],
              partialPacket |-> FALSE]
        ELSE IF head = ChD
        THEN IF Len(e.m_incomingData) < 2
             THEN [e |-> e, partialPacket |-> TRUE]
             ELSE LET msgLength == e.m_incomingData[2]
                  IN  IF Len(e.m_incomingData) <= 2 + msgLength
                      THEN [e |-> e, partialPacket |-> TRUE]
                      ELSE [e |-> emit(e, Signal("debugMessage",
                                       SubSeq(e.m_incomingData, 3, 2 + msgLength))),
                            partialPacket |-> FALSE]
        ELSE [e |-> [emit(e, Signal("streamError", <<head>>))
                        EXCEPT !.m_incomingData = RemoveFirst(@)],
              partialPacket |-> FALSE]

\* One run of the body of the while loop, on a non-empty buffer: the engine
\* after it and the partialPacket flag.
DecodeBody(e) ==
    LET head == e.m_incomingData[1]
    IN  IF isStreamMode(e) /\ head = ChN
        THEN LET ready == [e EXCEPT !.m_hardwareQueueFull = FALSE]
                 sent == sendData(ready, createSequencePacketForPoint(point(ready)))
                 moved == incrementCurPoint(sent)
             IN  [e |-> [moved EXCEPT !.m_incomingData = RemoveFirst(@)],
                  partialPacket |-> FALSE]
        ELSE IF isStreamMode(e) /\ head = ChF
        THEN [e |-> [e EXCEPT !.m_hardwareQueueFull = TRUE,
                              !.m_incomingData = RemoveFirst(@)],
              partialPacket |-> FALSE]
        ELSE IF head = ChD
        THEN IF Len(e.m_incomingData) < 2
             THEN [e |-> e, partialPacket |-> TRUE]
             ELSE LET msgLength == e.m_incomingData[2]
                  IN  IF Len(e.m_incomingData) < 2 + msgLength
                      THEN [e |-> e, partialPacket |-> TRUE]
                      ELSE [e |-> emit(e, Signal("debugMessage",
                                       SubSeq(e.m_incomingData, 3, 2 + msgLength))),
                            partialPacket |-> FALSE]
        ELSE [e |-> [emit(e, Signal("streamError", <<head>>))
                        EXCEPT !.m_incomingData = RemoveFirst(@)],
              partialPacket |-> FALSE]

\* The while loop.  A run of the body that leaves the flag false and changes
\* nothing the loop reads (everything but the signals emitted) is followed by
\* the same run again, without end: control never leaves the loop, which is
\* recorded as stalled, with the repeated signal kept once.
RECURSIVE DecodeLoop(_, _)
DecodeLoop(e, partialPacket) ==
    IF e.m_incomingData = << >> \/ partialPacket
    THEN e
    ELSE LET r == DecodeBody(e)
         IN  IF ~r.partialPacket /\ [r.e EXCEPT !.events = e.events] = e
             THEN [r.e EXCEPT !.stalled = TRUE]
             ELSE DecodeLoop(r.e, r.partialPacket)

\* data: what m_serialPort.readAll() returns.
handleReadyRead(e, data) ==
    DecodeLoop([e EXCEPT !.m_incomingData = @ \o data], FALSE)

---------------------------------------------------------------------------
(* The engine in its environment: the host calls the public operations,    *)
(* the transport delivers bytes, the boot timer expires, the host moves    *)
(* the cursor of the Sequence.  Everything runs on one thread, so nothing  *)
(* happens once control is stuck inside a handler.                         *)

Fits(e) == Len(e.m_incomingData) <= MaxBuf

\* The object is called while it exists.
Do(call, e) ==
    /\ ~stalled
    /\ lastCall # "~SerialCommunication"
    /\ Fits(e)
    /\ Apply(e)
    /\ lastCall' = call

NoCodec == [kind |-> "none"]

\* No bytes delivered since the last call that was not a readyRead.
NoWindow == [fed |-> << >>]

\* The readyRead calls since the last other call, taken together: the engine
\* before the first of them (base), the bytes they delivered (fed), and what
\* they wrote and emitted, call after call.  A window holds at most MaxFed
\* bytes; the call that would overfill it starts a new one.
Feed(data, e) ==
    IF window.fed # << >> /\ Len(window.fed) + Len(data) <= MaxFed
    THEN [base |-> window.base, fed |-> window.fed \o data,
          written |-> window.written \o e.written,
          events |-> window.events \o e.events]
    ELSE [base |-> Eng, fed |-> data, written |-> e.written, events |-> e.events]

\* The points the stream has sent: whether it was started, the cursor it
\* started from (from), the indices of the points sent, in order (sent), and
\* how many of them were sent since the board last asked for one
\* (outstanding).
NoFlow == [started |-> FALSE, from |-> 0, sent |-> << >>, outstanding |-> 0]

\* Errors the port is let to signal.
SerialPortErrors == {"NoError", "WriteError"}

InitEngine ==
    /\ m_serialPort = FALSE
    /\ m_arduinoBoot = FALSE
    /\ m_sequence = "nullptr"
    /\ m_isStreamMode = FALSE
    /\ m_isImmediateMode = FALSE
    /\ m_paused = FALSE
    /\ m_hardwareQueueFull = FALSE
    /\ m_incomingData = << >>
    /\ connected = FALSE
    /\ written = << >>
    /\ events = << >>
    /\ stalled = FALSE
    /\ result = "ok"
    /\ lastCall = "SerialCommunication"

InitAux ==
    /\ window = NoWindow
    /\ step = 0
    /\ codecIn = NoCodec
    /\ codecOut = << >>
    /\ writeReturns = "all"
    /\ flow = NoFlow

Init ==
    /\ InitEngine
    /\ InitAux
    /\ \E n \in 1..MaxPoints :
          /\ seqPoints = TestSequence(n)
          /\ curPoint \in 0..(n - 1)

\* What a call that is not a readyRead leaves of the bookkeeping.
Called ==
    window' = NoWindow /\ UNCHANGED <<step, codecIn, codecOut, writeReturns, flow>>

OpenSerial == \E opened \in BOOLEAN :
    Do("openSerial", openSerial(Eng, opened)) /\ Called

CloseSerial == Do("closeSerial", closeSerial(Eng)) /\ Called

StartStream == \E startFromCurrent \in BOOLEAN :
    Do("startStream", startStream(Eng, startFromCurrent)) /\ Called

PauseStream == Do("pauseStream", pauseStream(Eng)) /\ Called

ResumeStream == Do("resumeStream", resumeStream(Eng)) /\ Called

StartImmediate == Do("startImmediate", startImmediate(Eng)) /\ Called

Stop == Do("stop", stop(Eng)) /\ Called

\* readyRead: the open port has new bytes.
HandleReadyRead == \E data \in Chunks :
    m_serialPort /\ Do("handleReadyRead", handleReadyRead(Eng, data)) /\ Called

\* The single-shot boot timer expires.
ArduinoBootTimeout ==
    /\ m_arduinoBoot
    /\ Do("arduinoBootFinished",
          arduinoBootFinished([Eng EXCEPT !.m_arduinoBoot = FALSE]))
    /\ Called

\* The host moves the cursor of the Sequence to another point.
SequenceSetCurPoint == \E i \in 0..(Len(seqPoints) - 1) :
    i # curPoint /\ Do("setCurPoint", setCurPoint(Eng, i)) /\ Called

\* The port signals an error (or that its error was cleared).
HandleError == \E error \in SerialPortErrors :
    Do("handleError", handleError(Eng, error)) /\ Called

\* The host destroys the object.
Destructor == Do("~SerialCommunication", destructor(Eng)) /\ Called

Next ==
    \/ OpenSerial
    \/ CloseSerial
    \/ StartStream
    \/ PauseStream
    \/ ResumeStream
    \/ StartImmediate
    \/ Stop
    \/ HandleReadyRead
    \/ ArduinoBootTimeout
    \/ SequenceSetCurPoint
    \/ HandleError
    \/ Destructor

Spec == Init /\ [][Next]_vars

\* The same engine and environment, with the readyRead calls that follow one
\* another gathered into windows.
WindowedReadyRead == \E data \in Chunks :
    /\ m_serialPort
    /\ Do("handleReadyRead", handleReadyRead(Eng, data))
    /\ window' = Feed(data, handleReadyRead(Eng, data))
    /\ UNCHANGED <<step, codecIn, codecOut, writeReturns, flow>>

WindowedNext ==
    \/ OpenSerial
    \/ CloseSerial
    \/ StartStream
    \/ PauseStream
    \/ ResumeStream
    \/ StartImmediate
    \/ Stop
    \/ WindowedReadyRead
    \/ ArduinoBootTimeout
    \/ SequenceSetCurPoint
    \/ HandleError
    \/ Destructor

SpecWindowed == Init /\ [][WindowedNext]_vars

---------------------------------------------------------------------------
(* Properties of the engine in its environment (Spec) *)

IsPointPacket(pkt) == pkt # << >> /\ pkt[1] = ChP

PointPackets(pkts) == SelectSeq(pkts, IsPointPacket)

\* This step is handleReadyRead receiving data.
ReadStep(data) ==
    /\ m_serialPort
    /\ ~stalled
    /\ lastCall' = "handleReadyRead"
    /\ Apply(handleReadyRead(Eng, data))

\* bytes is one whole debug frame: 'D', a length, and that many bytes.
IsDebugFrame(bytes) ==
    /\ Len(bytes) >= 2
    /\ bytes[1] = ChD
    /\ Len(bytes) = 2 + bytes[2]

\* bytes is the beginning of a debug frame that more bytes must complete.
IsDebugPrefix(bytes) ==
    /\ bytes # << >>
    /\ bytes[1] = ChD
    /\ Len(bytes) < 2 \/ Len(bytes) < 2 + bytes[2]

\* C1: a handleReadyRead call that leaves the buffer holding a debug frame
\* still incomplete emits nothing; the call that completes the frame emits
\* exactly one debugMessage carrying its len payload bytes, removes the
\* 2 + len bytes of the frame from the buffer, and returns.
C1_DebugFrameDelivered ==
    [][\A data \in Chunks :
         ReadStep(data) =>
           LET bytes == m_incomingData \o data
           IN  /\ IsDebugPrefix(bytes) =>
                    events' = << >> /\ m_incomingData' = bytes
               /\ IsDebugFrame(bytes) =>
                    /\ events' = <<Signal("debugMessage",
                                          SubSeq(bytes, 3, Len(bytes)))>>
                    /\ m_incomingData' = << >>
                    /\ ~stalled']_vars

\* C2: every call of handleReadyRead returns: control is never left inside
\* the decode loop, whatever the buffer holds and whatever the mode.
C2_DecodePassTerminates == ~stalled

\* C3: while the boot timer started by openSerial is pending (before and
\* after the step, so the step is not its expiry), no call writes a packet.
C3_NothingWrittenWhileBootPending ==
    [][(m_arduinoBoot /\ m_arduinoBoot') => written' = << >>]_vars

\* C5 (under SpecWindowed): the readyRead calls of a window, taken together,
\* write the packets, emit the signals and leave the engine in the state
\* that one call does that receives all the bytes of the window at once.
C5_ChunkSizeIndependent ==
    window.fed # << >> =>
        LET whole == handleReadyRead(window.base, window.fed)
        IN  /\ whole.written = window.written
            /\ whole.events = window.events
            /\ [whole EXCEPT !.written = << >>, !.events = << >>] = Eng

\* This step is a readyRead whose bytes, behind those already buffered, hold
\* an 'N'.
ReadsN ==
    \E data \in Chunks :
        /\ ReadStep(data)
        /\ \E k \in 1..Len(m_incomingData \o data) : (m_incomingData \o data)[k] = ChN

PacketsOfSequence ==
    {createSequencePacketForPoint(seqPoints[i]) : i \in 1..Len(seqPoints)}

lastIndex == Len(seqPoints) - 1

\* stop has run as the last thing the step did to the transport and the host.
Stopped ==
    /\ written' # << >>
    /\ written'[Len(written')] = <<ChH>>
    /\ events' # << >>
    /\ events'[Len(events')] = Signal("streamStopped", << >>)
    /\ ~m_isStreamMode'
    /\ ~m_isImmediateMode'
    /\ m_sequence' = "nullptr"

\* C9: during a Streaming session the cursor is inside 0..numPoints-1 and
\* every point packet written is the packet of a point of the Sequence.  A
\* step of a Streaming session that sends k points starts from the cursor
\* and advances it once per point: it ends k points further if they all lie
\* before the last index, and else it sent the point at the last index as
\* its last and stop ran (H written, streamStopped emitted, cursor not moved
\* past the end).  The step that starts the session sends one point, from
\* the cursor or from 0, under the same rule.
C9_CursorInRange ==
    /\ [](/\ m_isStreamMode => curPoint \in 0..lastIndex
          /\ \A k \in 1..Len(written) :
                IsPointPacket(written[k]) => written[k] \in PacketsOfSequence)
    /\ [][LET k == Len(PointPackets(written'))
          IN  /\ (m_isStreamMode /\ k > 0) =>
                   IF curPoint + k <= lastIndex
                   THEN m_isStreamMode' /\ curPoint' = curPoint + k
                   ELSE /\ curPoint + k - 1 = lastIndex
                        /\ curPoint' = lastIndex
                        /\ Stopped
              /\ (~m_isStreamMode /\ lastCall' = "startStream" /\ k > 0) =>
                   /\ k = 1
                   /\ \/ /\ m_isStreamMode'
                         /\ curPoint' \in {1, curPoint + 1}
                         /\ curPoint' <= lastIndex
                      \/ /\ curPoint' = lastIndex
                         /\ Stopped]_vars

\* A point was sent from the last index of a Sequence of several points, and
\* the session stopped with the cursor still there.
C9_Witness ==
    /\ lastCall \in {"handleReadyRead", "resumeStream"}
    /\ Len(seqPoints) > 1
    /\ curPoint = lastIndex
    /\ Len(written) = 2
    /\ written[1] = createSequencePacketForPoint(seqPoints[Len(seqPoints)])
    /\ written[2] = <<ChH>>
    /\ events = <<Signal("streamStopped", << >>)>>
    /\ ~m_isStreamMode

\* The precondition of each operation, as the claim lists them.
Rejected(call) ==
    CASE call \in {"startStream", "startImmediate"} ->
             ~m_serialPort \/ m_isStreamMode \/ m_isImmediateMode
      [] call \in {"openSerial", "closeSerial"} ->
             m_isStreamMode \/ m_isImmediateMode
      [] call \in {"pauseStream", "resumeStream"} -> ~m_isStreamMode
      [] call = "stop" -> ~(m_isStreamMode \/ m_isImmediateMode)
      [] OTHER -> FALSE

\* C10: an operation called with its precondition violated (a start with a
\* session active or the transport closed, open or close during a session,
\* pause or resume outside Streaming, stop in Idle) throws, and a call that
\* throws changes nothing: mode, flags, bound sequence, subscription,
\* cursor, incoming buffer, transport and boot timer are as before and
\* nothing is written or emitted.
C10_FailedCallsChangeNothing ==
    [][/\ Rejected(lastCall') => result' = "exception"
       /\ result' = "exception" =>
            /\ Rejected(lastCall')
            /\ UNCHANGED <<m_serialPort, m_arduinoBoot, m_sequence,
                           m_isStreamMode, m_isImmediateMode, m_paused,
                           m_hardwareQueueFull, m_incomingData, connected,
                           seqPoints, curPoint, stalled>>
            /\ written' = << >>
            /\ events' = << >>]_vars

\* startImmediate was refused during a Streaming session that has bytes of
\* an incomplete frame buffered.
C10_Witness ==
    /\ lastCall = "startImmediate"
    /\ result = "exception"
    /\ m_isStreamMode
    /\ m_incomingData # << >>

---------------------------------------------------------------------------
(* More properties of the engine in its environment (Spec) *)

Idle == ~m_isStreamMode /\ ~m_isImmediateMode

\* The fields of the engine and of the Sequence, the outputs of the call
\* left aside.
engineFields == <<m_serialPort, m_arduinoBoot, m_sequence, m_isStreamMode,
                  m_isImmediateMode, m_paused, m_hardwareQueueFull,
                  m_incomingData, connected, seqPoints, curPoint, stalled>>

\* C11: resumeStream called in Streaming mode with the pause flag false
\* returns without effect: nothing is written or emitted and the cursor, the
\* flags, the buffer and every other field are as before, so any number of
\* such calls leaves the engine where it was.
C11_ResumeWhenNotPausedIsNoOp ==
    [][(m_isStreamMode /\ ~m_paused /\ lastCall' = "resumeStream") =>
         /\ result' = "ok"
         /\ written' = << >>
         /\ events' = << >>
         /\ UNCHANGED engineFields]_vars

\* resumeStream ran on a stream that was not paused and whose hardware queue
\* was not full (a paused one would have sent a point).
C11_Witness ==
    /\ lastCall = "resumeStream"
    /\ result = "ok"
    /\ m_isStreamMode
    /\ ~m_hardwareQueueFull
    /\ written = << >>

\* b at the head of the buffer is no tag the engine knows in its mode.
Unrecognised(b) == b # ChD /\ (b \in {ChN, ChF} => ~m_isStreamMode)

\* C12: a decode pass that finds an unrecognised byte at the head of the
\* buffer emits one streamError for it, removes that one byte, and goes on
\* exactly as a pass over the rest of the buffer does: mode, flags, cursor
\* and transport are not touched by the byte.  A pass over that byte alone
\* emits the one streamError, writes nothing and changes no field.  This
\* holds of handleReadyRead in every state it can be called in, whatever
\* bytes it reads.
C12_UnknownByteDiscarded ==
    (m_serialPort /\ ~stalled /\ lastCall # "~SerialCommunication") =>
        \A data \in Chunks :
            LET bytes == m_incomingData \o data
                error == Signal("streamError", <<bytes[1]>>)
                rest == handleReadyRead(
                            [Eng EXCEPT !.m_incomingData = << >>], Tail(bytes))
            IN  Unrecognised(bytes[1]) =>
                  /\ handleReadyRead(Eng, data)
                       = [rest EXCEPT !.events = <<error>> \o @]
                  /\ Len(bytes) = 1 =>
                       handleReadyRead(Eng, data) = [Eng EXCEPT !.events = <<error>>]

\* An 'N' arrived outside Streaming mode and was reported, alone.
C12_Witness ==
    /\ lastCall = "handleReadyRead"
    /\ ~m_isStreamMode
    /\ events = <<Signal("streamError", <<ChN>>)>>
    /\ written = << >>
    /\ m_incomingData = << >>

\* C14: a session has its transport for as long as it lasts.  openSerial
\* and closeSerial throw in Streaming and Immediate mode and leave the port
\* as it is; the port of an active session is closed by the destructor
\* only, which writes 'H' first and nothing after it; every step that ends a
\* session, and every step that writes with no session left, writes 'H' as
\* its last packet, to the port that was open when the step began.
C14_StopPacketBeforeClose ==
    [][LET active == m_isStreamMode \/ m_isImmediateMode
           activeAfter == m_isStreamMode' \/ m_isImmediateMode'
       IN  /\ activeAfter => m_serialPort'
           /\ (active /\ lastCall' \in {"openSerial", "closeSerial"}) =>
                /\ result' = "exception"
                /\ m_serialPort'
                /\ activeAfter
                /\ written' = << >>
           /\ (active /\ m_serialPort /\ ~m_serialPort') =>
                /\ lastCall' = "~SerialCommunication"
                /\ written' = <<<<ChH>>>>
           /\ (active /\ ~activeAfter) => written' # << >>
           /\ (~activeAfter /\ written' # << >>) =>
                /\ m_serialPort
                /\ written'[Len(written')] = <<ChH>>]_vars

\* The object was destroyed during a session: 'H' was written and the port
\* closed after it.
C14_Witness ==
    /\ lastCall = "~SerialCommunication"
    /\ written = <<<<ChH>>>>
    /\ ~m_serialPort
    /\ Idle

\* C15: when handleReadyRead has returned, the buffer is empty or begins
\* with a debug frame that more bytes must complete; the other calls leave
\* it so too.
C15_BufferEmptyOrIncomplete ==
    ~stalled => (m_incomingData = << >> \/ IsDebugPrefix(m_incomingData))

\* handleReadyRead returned with the tag and the length of a debug frame
\* buffered, waiting for its payload.
C15_Witness ==
    /\ lastCall = "handleReadyRead"
    /\ ~stalled
    /\ Len(m_incomingData) = 2
    /\ m_incomingData[1] = ChD
    /\ m_incomingData[2] = 1

\* C16: the mode is not Idle exactly when a Sequence is held.
C16_SequenceHeldIffActive ==
    (m_isStreamMode \/ m_isImmediateMode) <=> (m_sequence = "sequence")

\* The stream reached its last point inside handleReadyRead, which stopped
\* it and let go of the Sequence.
C16_Witness ==
    /\ lastCall = "handleReadyRead"
    /\ events # << >>
    /\ events[Len(events)] = Signal("streamStopped", << >>)
    /\ Idle
    /\ m_sequence = "nullptr"

\* C17: the pause flag and the hardware-queue-full flag are true in
\* Streaming mode only, and the two mode flags are never both true.
C17_FlagsOnlyWhileStreaming ==
    /\ (m_paused \/ m_hardwareQueueFull) => m_isStreamMode
    /\ ~(m_isStreamMode /\ m_isImmediateMode)

\* A paused stream whose device has reported its queue full.
C17_Witness ==
    /\ m_isStreamMode
    /\ m_paused
    /\ m_hardwareQueueFull

\* C19: stop called in Streaming or Immediate mode writes the one byte 'H',
\* disconnects the cursor-change slot, lets go of the Sequence and leaves
\* the mode Idle, both flags false and the buffer empty; it emits
\* streamStopped, once, when the mode was Streaming and nothing when it was
\* Immediate.  In Idle neither a cursor change nor incoming bytes write a
\* packet.
C19_StopEndsSession ==
    [][/\ (lastCall' = "stop" /\ (m_isStreamMode \/ m_isImmediateMode)) =>
            /\ result' = "ok"
            /\ written' = <<<<ChH>>>>
            /\ events' = IF m_isStreamMode
                         THEN <<Signal("streamStopped", << >>)>>
                         ELSE << >>
            /\ ~connected'
            /\ m_sequence' = "nullptr"
            /\ ~m_isStreamMode'
            /\ ~m_isImmediateMode'
            /\ ~m_paused'
            /\ ~m_hardwareQueueFull'
            /\ m_incomingData' = << >>
       /\ (Idle /\ lastCall' \in {"setCurPoint", "handleReadyRead"}) =>
            written' = << >>]_vars

\* stop ended an Immediate session: 'H' written, no streamStopped.
C19_Witness ==
    /\ lastCall = "stop"
    /\ result = "ok"
    /\ written = <<<<ChH>>>>
    /\ events = << >>
    /\ Idle

---------------------------------------------------------------------------
(* The engine on a port whose write can fail (SpecFaulty) *)

WriteResults == {"all", "short", "-1"}

\* The port starts to answer write in another way.
PortWrites == \E r \in WriteResults \ {writeReturns} :
    /\ ~stalled
    /\ lastCall # "~SerialCommunication"
    /\ writeReturns' = r
    /\ UNCHANGED <<engineVars, result, lastCall, window, step, codecIn,
                   codecOut, flow>>

FaultyNext == Next \/ PortWrites

SpecFaulty == Init /\ [][FaultyNext]_vars

HasStreamError(evs) == \E i \in 1..Len(evs) : evs[i].sig = "streamError"

\* C13: a call in which m_serialPort.write returned -1 or less than the
\* size of the packet has emitted streamError.
C13_WriteAnomalyReported ==
    [][(writeReturns' = writeReturns /\ writeReturns # "all" /\ written' # << >>)
         => HasStreamError(events')]_vars

---------------------------------------------------------------------------
(* One Streaming session (SpecSession): the host opens the port, starts the  *)
(* stream, pauses and resumes it; the board boots and sends 'N', 'F' and    *)
(* debug frames, one whole token per readyRead.  The host neither stops the *)
(* stream nor moves the cursor.                                             *)

Tokens == {<<ChN>>, <<ChF>>, <<ChD, 1, 1>>}

\* The index of the point a packet carries, -1 if it is no point of the
\* Sequence.
IndexOfPacket(pkt) ==
    LET carries(i) == createSequencePacketForPoint(seqPoints[i + 1]) = pkt
    IN  IF \E i \in 0..(Len(seqPoints) - 1) : carries(i)
        THEN CHOOSE i \in 0..(Len(seqPoints) - 1) : carries(i)
        ELSE -1

\* The indices of the points engine e, after a call, has written in it.
SentBy(e) ==
    LET pkts == PointPackets(e.written)
    IN  [k \in 1..Len(pkts) |-> IndexOfPacket(pkts[k])]

\* flow after a call that left engine e; asked: the call was the board's 'N'.
Flow(e, asked) ==
    [flow EXCEPT !.sent = @ \o SentBy(e),
                 !.outstanding = (IF asked THEN 0 ELSE @) + Len(SentBy(e))]

InSession(call, e, asked) ==
    /\ Do(call, e)
    /\ flow' = Flow(e, asked)
    /\ UNCHANGED <<window, step, codecIn, codecOut, writeReturns>>

SessionOpen == ~m_serialPort /\ InSession("openSerial", openSerial(Eng, TRUE), FALSE)

SessionStart == \E startFromCurrent \in BOOLEAN :
    LET e == startStream(Eng, startFromCurrent)
    IN  /\ m_serialPort
        /\ ~flow.started
        /\ Do("startStream", e)
        /\ flow' = [started |-> TRUE,
                    from |-> IF startFromCurrent THEN curPoint ELSE 0,
                    sent |-> SentBy(e),
                    outstanding |-> Len(SentBy(e))]
        /\ UNCHANGED <<window, step, codecIn, codecOut, writeReturns>>

SessionBoot ==
    /\ m_arduinoBoot
    /\ InSession("arduinoBootFinished",
                 arduinoBootFinished([Eng EXCEPT !.m_arduinoBoot = FALSE]), FALSE)

SessionRead(token) ==
    /\ m_serialPort
    /\ InSession("handleReadyRead", handleReadyRead(Eng, token),
                 m_isStreamMode /\ token = <<ChN>>)

SessionReadN == SessionRead(<<ChN>>)

SessionReadOther == \E token \in Tokens \ {<<ChN>>} : SessionRead(token)

SessionPause ==
    m_isStreamMode /\ ~m_paused /\ InSession("pauseStream", pauseStream(Eng), FALSE)

SessionResume ==
    m_isStreamMode /\ m_paused /\ InSession("resumeStream", resumeStream(Eng), FALSE)

SessionNext ==
    \/ SessionOpen
    \/ SessionStart
    \/ SessionBoot
    \/ SessionReadN
    \/ SessionReadOther
    \/ SessionPause
    \/ SessionResume

\* The timer expires, the board goes on asking for points, and a host that
\* paused the stream resumes it.
SpecSession ==
    /\ Init
    /\ [][SessionNext]_vars
    /\ WF_vars(SessionBoot)
    /\ WF_vars(SessionReadN)
    /\ WF_vars(SessionResume)

\* C18: of the points of a stream, at most one was sent since the board last
\* asked for one with 'N' (since the start, before the first 'N').
C18_OnePointOutstanding == m_isStreamMode => flow.outstanding <= 1

\* The stream has ended as it should: 'H' and streamStopped came last, and
\* the points sent are those from the cursor the stream started at to the
\* last, each once, in order.
EndedWell ==
    /\ Idle
    /\ written # << >>
    /\ written[Len(written)] = <<ChH>>
    /\ events # << >>
    /\ events[Len(events)] = Signal("streamStopped", << >>)
    /\ flow.sent = [k \in 1..(Len(seqPoints) - flow.from) |-> flow.from + k - 1]

\* C20: when the timer expires, the board goes on sending 'N', the host
\* resumes what it paused and nobody else moves the cursor, a stream that
\* is running comes to its end: the mode is Idle again, 'H' was written and
\* streamStopped emitted, after every point from the cursor the stream
\* started at to the last was sent once, in order.
C20_StreamCompletes == m_isStreamMode ~> EndedWell

---------------------------------------------------------------------------
(* The scenario: open the transport, startStream(seq, false) on a Sequence *)
(* of three points, the boot timer expires, then 'N' arrives three times,  *)
(* one byte per readyRead.  step counts the operations done.               *)

ScenarioPoints ==
    {SequencePoint(1, 0, <<0, 0>>),
     SequencePoint(256, 513, <<255, 1>>),
     SequencePoint(65535, 255, <<7, 128>>)}

ScenarioInit ==
    /\ InitEngine
    /\ InitAux
    /\ seqPoints \in [1..3 -> ScenarioPoints]
    /\ curPoint \in 0..2

Then(n) ==
    /\ step = n
    /\ step' = n + 1
    /\ UNCHANGED <<window, codecIn, codecOut, writeReturns, flow>>

ScenarioOpen == Then(0) /\ Do("openSerial", openSerial(Eng, TRUE))

ScenarioStartStream == Then(1) /\ Do("startStream", startStream(Eng, FALSE))

ScenarioBootTimeout ==
    /\ Then(2)
    /\ m_arduinoBoot
    /\ Do("arduinoBootFinished",
          arduinoBootFinished([Eng EXCEPT !.m_arduinoBoot = FALSE]))

ScenarioN ==
    /\ \E n \in 3..5 : Then(n)
    /\ m_serialPort
    /\ Do("handleReadyRead", handleReadyRead(Eng, <<ChN>>))

ScenarioNext ==
    \/ ScenarioOpen
    \/ ScenarioStartStream
    \/ ScenarioBootTimeout
    \/ ScenarioN

SpecScenario == ScenarioInit /\ [][ScenarioNext]_vars

P(i) == createSequencePacketForPoint(seqPoints[i + 1])

StartOfStream == startPacket(TRUE, Len(seqPoints[1].point))

\* C4, as the scenario is written: after the boot timer the packets written
\* are S and P(point0), streamStarted is emitted and the cursor is 0; the
\* first N sends P(point1) and makes the cursor 1; the session is still
\* running after the second N and the third N stops it (H, streamStopped).
C4_ScenarioAsWritten ==
    /\ step = 3 =>
         /\ written = <<StartOfStream, P(0)>>
         /\ events = <<Signal("streamStarted", << >>)>>
         /\ curPoint = 0
    /\ step = 4 => written = <<P(1)>> /\ curPoint = 1
    /\ step = 5 => m_isStreamMode
    /\ step = 6 =>
         /\ written # << >>
         /\ written[Len(written)] = <<ChH>>
         /\ events = <<Signal("streamStopped", << >>)>>

\* C4, as the code runs it: arduinoBootFinished advances the cursor after
\* sending point 0, so after the boot timer the packets written are S and
\* P(point0), streamStarted is emitted and the cursor is 1; the first N
\* sends P(point1) and makes the cursor 2; the second N sends P(point2) from
\* the last index and stops the session (H written, streamStopped emitted,
\* mode Idle); the third N finds no session: it writes nothing and is
\* reported by streamError.
C4_Scenario ==
    /\ step = 3 =>
         /\ written = <<StartOfStream, P(0)>>
         /\ events = <<Signal("streamStarted", << >>)>>
         /\ curPoint = 1
         /\ m_isStreamMode
    /\ step = 4 =>
         /\ written = <<P(1)>>
         /\ events = << >>
         /\ curPoint = 2
         /\ m_isStreamMode
    /\ step = 5 =>
         /\ written = <<P(2), <<ChH>>>>
         /\ events = <<Signal("streamStopped", << >>)>>
         /\ ~m_isStreamMode
         /\ m_sequence = "nullptr"
    /\ step = 6 =>
         /\ written = << >>
         /\ events = <<Signal("streamError", <<ChN>>)>>
         /\ ~m_isStreamMode

\* The second N has been handled and has stopped the session.
C4_Witness ==
    /\ step = 5
    /\ lastCall = "handleReadyRead"
    /\ written = <<P(2), <<ChH>>>>
    /\ ~m_isStreamMode

---------------------------------------------------------------------------
(* The packet builders on their own: codecIn is a point, or the mode and   *)
(* the dimension of a start packet; codecOut is the packet built from it.  *)

Durations == {0, 1, 255, 256, 257, 511, 512, 4660, 65280, 65535}

ValueLists == {<< >>, <<0>>, <<255>>, <<1, 128>>, <<7, 8, 9>>}

CodecInputs ==
    {[kind |-> "point", p |-> SequencePoint(d, t, v)] :
        d \in Durations, t \in Durations, v \in ValueLists}
    \cup {[kind |-> "start", stream |-> b, dim |-> n] : b \in BOOLEAN, n \in 0..255}

CodecInit ==
    /\ InitEngine
    /\ seqPoints = TestSequence(1)
    /\ curPoint = 0
    /\ window = NoWindow
    /\ step = 0
    /\ codecIn \in CodecInputs
    /\ codecOut = << >>
    /\ writeReturns = "all"
    /\ flow = NoFlow

EncodePoint ==
    /\ codecIn.kind = "point"
    /\ codecOut = << >>
    /\ codecOut' = createSequencePacketForPoint(codecIn.p)
    /\ UNCHANGED <<engineVars, result, lastCall, window, step, codecIn,
                   writeReturns, flow>>

EncodeStart ==
    /\ codecIn.kind = "start"
    /\ codecOut = << >>
    /\ codecOut' = startPacket(codecIn.stream, codecIn.dim)
    /\ UNCHANGED <<engineVars, result, lastCall, window, step, codecIn,
                   writeReturns, flow>>

CodecNext == EncodePoint \/ EncodeStart

SpecCodec == CodecInit /\ [][CodecNext]_vars

\* Reading a point packet back by the layout of the wire format.
ParsePointPacket(pkt) ==
    SequencePoint(pkt[2] * 256 + pkt[3], pkt[4] * 256 + pkt[5],
                  SubSeq(pkt, 6, Len(pkt)))

\* C6: the packet of a point is 'P', the high and the low byte of duration,
\* the high and the low byte of timeToTarget, then one byte per value, and
\* parsing that layout gives the point back.
C6_PointPacketRoundTrip ==
    (codecIn.kind = "point" /\ codecOut # << >>) =>
        LET p == codecIn.p
        IN  /\ Len(codecOut) = 5 + Len(p.point)
            /\ codecOut[1] = ChP
            /\ codecOut[2] = (p.duration \div 256) % 256
            /\ codecOut[3] = p.duration % 256
            /\ codecOut[4] = (p.timeToTarget \div 256) % 256
            /\ codecOut[5] = p.timeToTarget % 256
            /\ \A c \in 1..Len(p.point) : codecOut[5 + c] = p.point[c]
            /\ ParsePointPacket(codecOut) = p

\* C7: the start packet is two bytes: 'S' in Streaming mode or 'I' in
\* Immediate mode, then the dimension of the points masked to 8 bits.
C7_StartPacket ==
    (codecIn.kind = "start" /\ codecOut # << >>) =>
        codecOut = <<IF codecIn.stream THEN ChS ELSE ChI, codecIn.dim % 256>>

====
